---- MODULE Spec2Model ----
(***************************************************************************)
(* A model of the stack calculator of src/src/main.rs: the parser          *)
(* (get_input, parse_string), the evaluator (eval and its helpers) and     *)
(* the read-evaluate-print loop of main.                                   *)
(*                                                                         *)
(* Text is a sequence of one-character strings.  An f64 is a record        *)
(* [k, s, m]: kind, sign and magnitude.  The kinds are "fin" (an integer   *)
(* s * m, the zero being signed), "inf", "nan", "sym" (one of the three    *)
(* named constants, m = 1 for pi, 2 for e, 3 for phi) and "unk": a result  *)
(* that is a number of no other kind (1/2, sqrt 2, sin 1).  The actions    *)
(* take only the steps whose results are not "unk".                        *)
(***************************************************************************)
EXTENDS Integers, Sequences, FiniteSets, TLC

VARIABLES
    stack,     \* main.rs:249  the VecDeque<f64>, front (bottom) first
    pc,        \* the position of main: "read", "eval", "display", "returned", "panicked"
    input,     \* main.rs:251  the StackOp get_input returned
    buff,      \* main.rs:133  the line get_input read, as read_line left it
    out,       \* what was printed to stdout during the current cycle
    prev,      \* history: the stack as eval received it
    stdin      \* the input stream: "open" or "eof"

vars == <<stack, pc, input, buff, out, prev, stdin>>

-----------------------------------------------------------------------------
(* Bounds of the model. *)

\* The longest stack of the session (Spec).
MaxLen == 2

\* The largest magnitude of a finite number on the session's stack (Spec).
MaxNum == 2

\* The longest stack the evaluator is applied to in EvalSpec.
MaxDepth == 3

-----------------------------------------------------------------------------
(* f64 values. *)

NaN == [k |-> "nan", s |-> 1, m |-> 0]
Unk == [k |-> "unk", s |-> 1, m |-> 0]
Inf(sg) == [k |-> "inf", s |-> sg, m |-> 0]
Zero(sg) == [k |-> "fin", s |-> sg, m |-> 0]
Mag(sg, mg) == [k |-> "fin", s |-> sg, m |-> mg]
Fin(n) == IF n < 0 THEN Mag(-1, -n) ELSE Mag(1, n)
Sym(sg, c) == [k |-> "sym", s |-> sg, m |-> c]

\* std::f64::consts::PI, std::f64::consts::E and PHI
PI == Sym(1, 1)
E == Sym(1, 2)
PHI == Sym(1, 3)

IsZero(v) == v.k = "fin" /\ v.m = 0
IsOdd(n) == n % 2 = 1
IntOf(v) == v.s * v.m

RECURSIVE IntPow(_, _)
IntPow(b, n) == IF n = 0 THEN 1 ELSE b * IntPow(b, n - 1)

\* The integer square root of n, or -1 when n is no perfect square.
ExactRoot(n) ==
    LET R == {r \in 0..n : r * r = n}
    IN IF R = {} THEN -1 ELSE CHOOSE r \in R : TRUE

\* The integer base-2 logarithm of n >= 1, or -1 when n is no power of two.
RECURSIVE ExactLog2(_)
ExactLog2(n) ==
    IF n = 1 THEN 0
    ELSE IF n % 2 = 1 THEN -1
    ELSE IF ExactLog2(n \div 2) < 0 THEN -1
    ELSE ExactLog2(n \div 2) + 1

(* f64::add, IEEE 754 round-to-nearest *)
add(a, b) ==
    IF a.k = "unk" \/ b.k = "unk" THEN Unk
    ELSE IF a.k = "nan" \/ b.k = "nan" THEN NaN
    ELSE IF a.k = "inf" /\ b.k = "inf" THEN (IF a.s = b.s THEN a ELSE NaN)
    ELSE IF a.k = "inf" THEN a
    ELSE IF b.k = "inf" THEN b
    ELSE IF a.k = "fin" /\ b.k = "fin" THEN
        (IF IntOf(a) + IntOf(b) # 0 THEN Fin(IntOf(a) + IntOf(b))
         ELSE IF IsZero(a) /\ IsZero(b) /\ a.s = -1 /\ b.s = -1 THEN Zero(-1)
         ELSE Zero(1))
    ELSE IF IsZero(b) THEN a
    ELSE IF IsZero(a) THEN b
    ELSE IF a.k = "sym" /\ b.k = "sym" /\ a.m = b.m /\ a.s # b.s THEN Zero(1)
    ELSE Unk

(* f64::neg *)
neg(a) == IF a.k = "nan" \/ a.k = "unk" THEN a ELSE [a EXCEPT !.s = -a.s]

(* f64::sub *)
sub(a, b) == add(a, neg(b))

(* f64::mul *)
mul(a, b) ==
    IF a.k = "unk" \/ b.k = "unk" THEN Unk
    ELSE IF a.k = "nan" \/ b.k = "nan" THEN NaN
    ELSE IF (a.k = "inf" /\ IsZero(b)) \/ (IsZero(a) /\ b.k = "inf") THEN NaN
    ELSE IF a.k = "inf" \/ b.k = "inf" THEN Inf(a.s * b.s)
    ELSE IF IsZero(a) \/ IsZero(b) THEN Zero(a.s * b.s)
    ELSE IF a.k = "fin" /\ b.k = "fin" THEN Mag(a.s * b.s, a.m * b.m)
    ELSE IF a.k = "sym" /\ b.k = "fin" /\ b.m = 1 THEN Sym(a.s * b.s, a.m)
    ELSE IF b.k = "sym" /\ a.k = "fin" /\ a.m = 1 THEN Sym(a.s * b.s, b.m)
    ELSE Unk

(* f64::div *)
div(a, b) ==
    IF a.k = "unk" \/ b.k = "unk" THEN Unk
    ELSE IF a.k = "nan" \/ b.k = "nan" THEN NaN
    ELSE IF a.k = "inf" /\ b.k = "inf" THEN NaN
    ELSE IF a.k = "inf" THEN Inf(a.s * b.s)
    ELSE IF b.k = "inf" THEN Zero(a.s * b.s)
    ELSE IF IsZero(b) THEN (IF IsZero(a) THEN NaN ELSE Inf(a.s * b.s))
    ELSE IF IsZero(a) THEN Zero(a.s * b.s)
    ELSE IF a.k = "fin" /\ b.k = "fin" THEN
        (IF a.m % b.m = 0 THEN Mag(a.s * b.s, a.m \div b.m) ELSE Unk)
    ELSE IF a.k = "sym" /\ b.k = "fin" /\ b.m = 1 THEN Sym(a.s * b.s, a.m)
    ELSE IF a.k = "sym" /\ b.k = "sym" /\ a.m = b.m THEN Mag(a.s * b.s, 1)
    ELSE Unk

(* f64::powf: x to the power y, as C's pow *)
powf(x, y) ==
    IF x.k = "unk" \/ y.k = "unk" THEN Unk
    ELSE IF IsZero(y) THEN Fin(1)
    ELSE IF x = Fin(1) THEN Fin(1)
    ELSE IF x.k = "nan" \/ y.k = "nan" THEN NaN
    ELSE IF y.k = "inf" THEN
        (IF x = Fin(-1) THEN Fin(1)
         ELSE IF IsZero(x) THEN (IF y.s = 1 THEN Zero(1) ELSE Inf(1))
         ELSE IF x.k = "fin" /\ x.m = 1 THEN Fin(1)
         ELSE (IF y.s = 1 THEN Inf(1) ELSE Zero(1)))
    ELSE IF y.k = "sym" THEN
        (IF IsZero(x) THEN (IF y.s = 1 THEN Zero(1) ELSE Inf(1))
         ELSE IF x.k = "inf" THEN (IF y.s = 1 THEN Inf(1) ELSE Zero(1))
         ELSE IF x.s = -1 THEN NaN
         ELSE Unk)
    ELSE \* y is a non-zero integer
        LET sg == IF IsOdd(y.m) THEN x.s ELSE 1
        IN IF IsZero(x) THEN (IF y.s = 1 THEN Zero(sg) ELSE Inf(sg))
           ELSE IF x.k = "inf" THEN (IF y.s = 1 THEN Inf(sg) ELSE Zero(sg))
           ELSE IF x.k = "sym" THEN (IF y = Fin(1) THEN x ELSE Unk)
           ELSE IF y.s = 1 THEN Mag(sg, IntPow(x.m, y.m))
           ELSE IF x.m = 1 THEN Mag(sg, 1)
           ELSE Unk

(* f64::sqrt *)
sqrt(a) ==
    IF a.k = "unk" \/ a.k = "nan" THEN a
    ELSE IF IsZero(a) THEN a
    ELSE IF a.s = -1 THEN NaN
    ELSE IF a.k = "inf" THEN a
    ELSE IF a.k = "fin" /\ ExactRoot(a.m) >= 0 THEN Fin(ExactRoot(a.m))
    ELSE Unk

(* f64::abs *)
abs(a) == IF a.k = "nan" \/ a.k = "unk" THEN a ELSE [a EXCEPT !.s = 1]

(* f64::ln *)
ln(a) ==
    IF a.k = "unk" \/ a.k = "nan" THEN a
    ELSE IF IsZero(a) THEN Inf(-1)
    ELSE IF a.s = -1 THEN NaN
    ELSE IF a.k = "inf" THEN a
    ELSE IF a = Fin(1) THEN Zero(1)
    ELSE Unk

(* f64::log2 *)
log2(a) ==
    IF a.k = "unk" \/ a.k = "nan" THEN a
    ELSE IF IsZero(a) THEN Inf(-1)
    ELSE IF a.s = -1 THEN NaN
    ELSE IF a.k = "inf" THEN a
    ELSE IF a.k = "fin" /\ ExactLog2(a.m) >= 0 THEN Fin(ExactLog2(a.m))
    ELSE Unk

(* f64::log10 *)
log10(a) ==
    IF a.k = "unk" \/ a.k = "nan" THEN a
    ELSE IF IsZero(a) THEN Inf(-1)
    ELSE IF a.s = -1 THEN NaN
    ELSE IF a.k = "inf" THEN a
    ELSE IF a = Fin(1) THEN Zero(1)
    ELSE IF a = Fin(10) THEN Fin(1)
    ELSE Unk

(* f64::sin *)
sin(a) ==
    IF a.k = "unk" \/ a.k = "nan" THEN a
    ELSE IF IsZero(a) THEN a
    ELSE IF a.k = "inf" THEN NaN
    ELSE Unk

(* f64::cos *)
cos(a) ==
    IF a.k = "unk" \/ a.k = "nan" THEN a
    ELSE IF IsZero(a) THEN Fin(1)
    ELSE IF a.k = "inf" THEN NaN
    ELSE Unk

(* f64::tan *)
tan(a) ==
    IF a.k = "unk" \/ a.k = "nan" THEN a
    ELSE IF IsZero(a) THEN a
    ELSE IF a.k = "inf" THEN NaN
    ELSE Unk

(* f64::asin *)
asin(a) ==
    IF a.k = "unk" \/ a.k = "nan" THEN a
    ELSE IF IsZero(a) THEN a
    ELSE IF a.k = "fin" /\ a.m = 1 THEN Unk
    ELSE NaN

(* f64::acos *)
acos(a) ==
    IF a.k = "unk" \/ a.k = "nan" THEN a
    ELSE IF a = Fin(1) THEN Zero(1)
    ELSE IF a.k = "fin" /\ a.m <= 1 THEN Unk
    ELSE NaN

(* f64::atan *)
atan(a) ==
    IF a.k = "unk" \/ a.k = "nan" THEN a
    ELSE IF IsZero(a) THEN a
    ELSE Unk

(* f64::to_degrees *)
to_degrees(a) ==
    IF a.k = "unk" \/ a.k = "nan" THEN a
    ELSE IF IsZero(a) \/ a.k = "inf" THEN a
    ELSE Unk

(* f64::to_radians *)
to_radians(a) ==
    IF a.k = "unk" \/ a.k = "nan" THEN a
    ELSE IF IsZero(a) \/ a.k = "inf" THEN a
    ELSE Unk

-----------------------------------------------------------------------------
(* StackOp, main.rs:16-44. *)

Op(tag) == [tag |-> tag]
Num(n) == [tag |-> "Num", n |-> n]
NoOp == Op("NoOp")

BinTags == {"Add", "Sub", "Mul", "Div", "Pow"}
UnTags == {"Sqrt", "Neg", "Abs", "Ln", "Log", "Lg", "Sin", "Asin", "Cos", "Acos",
           "Tan", "Atan", "ToDeg", "ToRad"}
FoldTags == {"Sum", "Prod"}
ManipTags == {"Pop", "Clear", "Swap", "Rotate", "Duplicate"}
PlainTags == BinTags \cup UnTags \cup FoldTags \cup ManipTags \cup {"NoOp"}

-----------------------------------------------------------------------------
(* VecDeque<f64>: the front is the first element, the back the last. *)

None == [some |-> FALSE, val |-> NaN]
Some(v) == [some |-> TRUE, val |-> v]

\* push_back as it would be pushing at the front
push_back_front(s, v) == <<v>> \o s

push_back(s, v) == Append(s, v)
push_front(s, v) == <<v>> \o s
\* clear as it would be removing one element only
clear_one(s) == IF Len(s) = 0 THEN s ELSE SubSeq(s, 1, Len(s) - 1)

clear(s) == <<>>
back(s) == IF Len(s) = 0 THEN None ELSE Some(s[Len(s)])
\* pop_back as it would be leaving the element in the deque
pop_back_keep(s) ==
    IF Len(s) = 0 THEN [got |-> None, rest |-> s]
    ELSE [got |-> Some(s[Len(s)]), rest |-> s]

\* pop_back: the Option returned and the deque left
pop_back(s) ==
    IF Len(s) = 0 THEN [got |-> None, rest |-> s]
    ELSE [got |-> Some(s[Len(s)]), rest |-> SubSeq(s, 1, Len(s) - 1)]

\* Iterator::fold over iter(): front to back
RECURSIVE fold(_, _, _)
fold(s, acc, fun) ==
    IF s = <<>> THEN acc
    ELSE fold(Tail(s), IF fun = "add" THEN add(acc, Head(s)) ELSE mul(acc, Head(s)), fun)

-----------------------------------------------------------------------------
(* The evaluator, main.rs:144-244.  A call returns the stack it leaves and *)
(* whether it panicked (Option::unwrap on None).                           *)

Ok(s) == [stack |-> s, panic |-> FALSE]
Panic(s) == [stack |-> s, panic |-> TRUE]

\* fun(b, a) for the functions eval passes to eval_binop
Call2(fun, b, a) ==
    CASE fun = "add" -> add(b, a)
      [] fun = "sub" -> sub(b, a)
      [] fun = "mul" -> mul(b, a)
      [] fun = "div" -> div(b, a)
      [] fun = "powf" -> powf(b, a)

\* fun(a) for the functions eval passes to eval_unop
Call1(fun, a) ==
    CASE fun = "sqrt" -> sqrt(a)
      [] fun = "abs" -> abs(a)
      [] fun = "neg" -> neg(a)
      [] fun = "ln" -> ln(a)
      [] fun = "log2" -> log2(a)
      [] fun = "log10" -> log10(a)
      [] fun = "sin" -> sin(a)
      [] fun = "asin" -> asin(a)
      [] fun = "cos" -> cos(a)
      [] fun = "acos" -> acos(a)
      [] fun = "tan" -> tan(a)
      [] fun = "atan" -> atan(a)
      [] fun = "to_degrees" -> to_degrees(a)
      [] fun = "to_radians" -> to_radians(a)

\* eval_binop as it would be with the test `len() >= 1`
eval_binop_one(s, fun) ==
    IF Len(s) >= 1 THEN
        LET a == pop_back(s)
            b == pop_back(a.rest)
        IN IF ~a.got.some THEN Panic(a.rest)
           ELSE IF ~b.got.some THEN Panic(b.rest)
           ELSE Ok(push_back(b.rest, Call2(fun, b.got.val, a.got.val)))
    ELSE Ok(s)

\* eval_binop as it would be calling fun(a, b)
eval_binop_flipped(s, fun) ==
    IF Len(s) >= 2 THEN
        LET a == pop_back(s)
            b == pop_back(a.rest)
        IN IF ~a.got.some THEN Panic(a.rest)
           ELSE IF ~b.got.some THEN Panic(b.rest)
           ELSE Ok(push_back(b.rest, Call2(fun, a.got.val, b.got.val)))
    ELSE Ok(s)

eval_binop(s, fun) ==
    IF Len(s) >= 2 THEN
        LET a == pop_back(s)
            b == pop_back(a.rest)
        IN IF ~a.got.some THEN Panic(a.rest)
           ELSE IF ~b.got.some THEN Panic(b.rest)
           ELSE Ok(push_back(b.rest, Call2(fun, b.got.val, a.got.val)))
    ELSE Ok(s)

\* eval_unop as it would be reading back() without popping
eval_unop_peek(s, fun) ==
    LET a == back(s)
    IN IF a.some THEN Ok(push_back(s, Call1(fun, a.val))) ELSE Ok(s)

eval_unop(s, fun) ==
    LET a == pop_back(s)
    IN IF a.got.some THEN Ok(push_back(a.rest, Call1(fun, a.got.val)))
       ELSE Ok(a.rest)

\* eval_stackop as it would be without stack.clear()
eval_stackop_keep(s, start, fun) ==
    LET result == fold(s, start, fun)
    IN Ok(push_back(s, result))

eval_stackop(s, start, fun) ==
    LET result == fold(s, start, fun)
    IN Ok(push_back(<<>>, result))

\* swap as it would be with the test `len() >= 1`
swap_one(s) ==
    IF Len(s) >= 1 THEN
        LET a == pop_back(s)
            b == pop_back(a.rest)
        IN IF ~a.got.some THEN Panic(a.rest)
           ELSE IF ~b.got.some THEN Panic(b.rest)
           ELSE Ok(push_back(push_back(b.rest, a.got.val), b.got.val))
    ELSE Ok(s)

\* swap as it would be exchanging the back with the front
swap_ends(s) ==
    IF Len(s) >= 2
    THEN Ok(<<s[Len(s)]>> \o SubSeq(s, 2, Len(s) - 1) \o <<s[1]>>)
    ELSE Ok(s)

\* swap as it would be pushing a twice
swap_twice_a(s) ==
    IF Len(s) >= 2 THEN
        LET a == pop_back(s)
            b == pop_back(a.rest)
        IN IF ~a.got.some THEN Panic(a.rest)
           ELSE IF ~b.got.some THEN Panic(b.rest)
           ELSE Ok(push_back(push_back(b.rest, a.got.val), a.got.val))
    ELSE Ok(s)

swap(s) ==
    IF Len(s) >= 2 THEN
        LET a == pop_back(s)
            b == pop_back(a.rest)
        IN IF ~a.got.some THEN Panic(a.rest)
           ELSE IF ~b.got.some THEN Panic(b.rest)
           ELSE Ok(push_back(push_back(b.rest, a.got.val), b.got.val))
    ELSE Ok(s)

\* rotate as it would be with pop_front and push_back
rotate_front(s) ==
    IF Len(s) >= 1 THEN Ok(push_back(Tail(s), Head(s))) ELSE Ok(s)

\* rotate as it would be reversing the deque
rotate_reverse(s) == Ok([i \in 1..Len(s) |-> s[Len(s) + 1 - i]])

rotate(s) ==
    LET num == pop_back(s)
    IN IF num.got.some THEN Ok(push_front(num.rest, num.got.val))
       ELSE Ok(num.rest)

\* duplicate as it would be pushing back().copied().unwrap_or(0.0)
duplicate_default(s) ==
    LET num == back(s)
    IN IF num.some THEN Ok(push_back(s, num.val)) ELSE Ok(push_back(s, Zero(1)))

\* duplicate as it would be reading front()
duplicate_front(s) ==
    IF Len(s) >= 1 THEN Ok(push_back(s, s[1])) ELSE Ok(s)

duplicate(s) ==
    LET num == back(s)
    IN IF num.some THEN Ok(push_back(s, num.val)) ELSE Ok(s)

eval(s, last_op) ==
    CASE last_op.tag = "Add" -> eval_binop(s, "add")
      [] last_op.tag = "Sub" -> eval_binop(s, "sub")
      [] last_op.tag = "Mul" -> eval_binop(s, "mul")
      [] last_op.tag = "Div" -> eval_binop(s, "div")
      [] last_op.tag = "Pow" -> eval_binop(s, "powf")
      [] last_op.tag = "Sqrt" -> eval_unop(s, "sqrt")
      [] last_op.tag = "Abs" -> eval_unop(s, "abs")
      [] last_op.tag = "Neg" -> eval_unop(s, "neg")
      [] last_op.tag = "Ln" -> eval_unop(s, "ln")
      [] last_op.tag = "Lg" -> eval_unop(s, "log2")
      [] last_op.tag = "Log" -> eval_unop(s, "log10")
      [] last_op.tag = "Sin" -> eval_unop(s, "sin")
      [] last_op.tag = "Asin" -> eval_unop(s, "asin")
      [] last_op.tag = "Cos" -> eval_unop(s, "cos")
      [] last_op.tag = "Acos" -> eval_unop(s, "acos")
      [] last_op.tag = "Tan" -> eval_unop(s, "tan")
      [] last_op.tag = "Atan" -> eval_unop(s, "atan")
      [] last_op.tag = "ToDeg" -> eval_unop(s, "to_degrees")
      [] last_op.tag = "ToRad" -> eval_unop(s, "to_radians")
      [] last_op.tag = "Sum" -> eval_stackop(s, Zero(1), "add")
      [] last_op.tag = "Prod" -> eval_stackop(s, Fin(1), "mul")
      [] last_op.tag = "Pop" -> Ok(pop_back(s).rest)
      [] last_op.tag = "Clear" -> Ok(clear(s))
      [] last_op.tag = "Swap" -> swap(s)
      [] last_op.tag = "Rotate" -> rotate(s)
      [] last_op.tag = "Duplicate" -> duplicate(s)
      [] last_op.tag = "Num" -> Ok(push_back(s, last_op.n))
      [] last_op.tag = "NoOp" -> Ok(s)

-----------------------------------------------------------------------------
(* Text: sequences of one-character strings. *)

DigitChars == <<"0", "1", "2", "3", "4", "5", "6", "7", "8", "9">>
IsDigit(c) == \E i \in 1..10 : DigitChars[i] = c
DigitVal(c) == (CHOOSE i \in 1..10 : DigitChars[i] = c) - 1

UpperChars == <<"A", "B", "C", "D", "E", "F", "G", "H", "I", "J", "K", "L", "M",
                "N", "O", "P", "Q", "R", "S", "T", "U", "V", "W", "X", "Y", "Z",
                "Π", "Φ">>
LowerChars == <<"a", "b", "c", "d", "e", "f", "g", "h", "i", "j", "k", "l", "m",
                "n", "o", "p", "q", "r", "s", "t", "u", "v", "w", "x", "y", "z",
                "π", "φ">>

\* char::to_lowercase, for the characters of the model's inputs
LowerOf(c) ==
    IF \E i \in 1..Len(UpperChars) : UpperChars[i] = c
    THEN LowerChars[CHOOSE i \in 1..Len(UpperChars) : UpperChars[i] = c]
    ELSE c

\* char::to_uppercase, used to write the inputs (the symbol ϕ has the capital Φ)
UpperOf(c) ==
    IF c = "ϕ" THEN "Φ"
    ELSE IF \E i \in 1..Len(LowerChars) : LowerChars[i] = c
    THEN UpperChars[CHOOSE i \in 1..Len(LowerChars) : LowerChars[i] = c]
    ELSE c

\* str::to_lowercase
to_lowercase(t) == [i \in 1..Len(t) |-> LowerOf(t[i])]
to_uppercase(t) == [i \in 1..Len(t) |-> UpperOf(t[i])]

\* char::is_whitespace
IsWhitespace(c) == c \in {" ", "\t", "\n", "\r"}

\* str::trim: without the leading and trailing whitespace
trim(t) ==
    LET I == {i \in 1..Len(t) : ~IsWhitespace(t[i])}
    IN IF I = {} THEN <<>>
       ELSE SubSeq(t, CHOOSE i \in I : \A j \in I : i <= j,
                      CHOOSE i \in I : \A j \in I : j <= i)

\* println!: the text and a line break
println(t) == t \o <<"\n">>

\* The index of the first character of t that is in C, or 0.
IndexOf(t, C) ==
    LET I == {i \in 1..Len(t) : t[i] \in C}
    IN IF I = {} THEN 0 ELSE CHOOSE i \in I : \A j \in I : i <= j

AllDigits(t) == \A i \in 1..Len(t) : IsDigit(t[i])
AllZeros(t) == \A i \in 1..Len(t) : t[i] = "0"

RECURSIVE DigitsVal(_)
DigitsVal(t) ==
    IF t = <<>> THEN 0 ELSE 10 * DigitsVal(SubSeq(t, 1, Len(t) - 1)) + DigitVal(t[Len(t)])

\* The parse as it would be with `.parse::<f64>().or(Ok(0.0))`
parse_f64_lenient(t) == [ok |-> TRUE, val |-> Zero(1)]

\* <f64 as FromStr>::from_str (core::num::dec2flt): an optional sign, then either
\* digits with an optional point and an optional exponent, or one of the words
\* inf, infinity and nan in any letter case.  [ok, val]; val is Unk for a
\* number that is not an integer, and for one with a non-zero exponent.
parse_f64(t) ==
    LET signed == Len(t) >= 1 /\ t[1] \in {"+", "-"}
        sg == IF Len(t) >= 1 /\ t[1] = "-" THEN -1 ELSE 1
        body == IF signed THEN Tail(t) ELSE t
        word == to_lowercase(body)
        e == IndexOf(body, {"e", "E"})
        mant == IF e = 0 THEN body ELSE SubSeq(body, 1, e - 1)
        exp == IF e = 0 THEN <<>> ELSE SubSeq(body, e + 1, Len(body))
        expdigits == IF Len(exp) >= 1 /\ exp[1] \in {"+", "-"} THEN Tail(exp) ELSE exp
        dot == IndexOf(mant, {"."})
        ip == IF dot = 0 THEN mant ELSE SubSeq(mant, 1, dot - 1)
        fp == IF dot = 0 THEN <<>> ELSE SubSeq(mant, dot + 1, Len(mant))
        decimal == /\ AllDigits(ip) /\ AllDigits(fp) /\ Len(ip) + Len(fp) >= 1
                   /\ e # 0 => (Len(expdigits) >= 1 /\ AllDigits(expdigits))
    IN IF body = <<>> THEN [ok |-> FALSE, val |-> NaN]
       ELSE IF decimal THEN
           [ok |-> TRUE,
            val |-> IF AllZeros(ip) /\ AllZeros(fp) THEN Zero(sg)
                    ELSE IF AllZeros(fp) /\ AllZeros(expdigits) THEN Mag(sg, DigitsVal(ip))
                    ELSE Unk]
       ELSE IF word = <<"n", "a", "n">> THEN [ok |-> TRUE, val |-> NaN]
       ELSE IF word = <<"i", "n", "f">> \/ word = <<"i", "n", "f", "i", "n", "i", "t", "y">>
           THEN [ok |-> TRUE, val |-> Inf(sg)]
       ELSE [ok |-> FALSE, val |-> NaN]

-----------------------------------------------------------------------------
(* The parser, main.rs:46-142. *)

\* What parse_string returns and what it printed on the way.
Parsed(op, printed) == [op |-> op, printed |-> printed]

\* print_help, main.rs:47-73: the lines printed, in order
HelpText ==
    << (* 48: List of available commands:  *)
       <<"L", "i", "s", "t", " ", "o", "f", " ", "a", "v", "a", "i", "l", "a", "b", "l", "e", " ", "c", "o", "m", "m", "a", "n", "d", "s", ":", " ">>,
       (* 49: help, ? -- print this help *)
       <<"h", "e", "l", "p", ",", " ", "?", " ", "-", "-", " ", "p", "r", "i", "n", "t", " ", "t", "h", "i", "s", " ", "h", "e", "l", "p">>,
       (* 50: <number> -- Pushes a number to the stack *)
       <<"<", "n", "u", "m", "b", "e", "r", ">", " ", "-", "-", " ", "P", "u", "s", "h", "e", "s", " ", "a", " ", "n", "u", "m", "b", "e", "r", " ", "t", "o", " ", "t", "h", "e", " ", "s", "t", "a", "c", "k">>,
       (* 51: pi -- Pushes π onto the stack *)
       <<"p", "i", " ", "-", "-", " ", "P", "u", "s", "h", "e", "s", " ", "π", " ", "o", "n", "t", "o", " ", "t", "h", "e", " ", "s", "t", "a", "c", "k">>,
       (* 52: e -- Pushes e onto the stack *)
       <<"e", " ", "-", "-", " ", "P", "u", "s", "h", "e", "s", " ", "e", " ", "o", "n", "t", "o", " ", "t", "h", "e", " ", "s", "t", "a", "c", "k">>,
       (* 53: phi -- Pushes the golden ratio onto the stack *)
       <<"p", "h", "i", " ", "-", "-", " ", "P", "u", "s", "h", "e", "s", " ", "t", "h", "e", " ", "g", "o", "l", "d", "e", "n", " ", "r", "a", "t", "i", "o", " ", "o", "n", "t", "o", " ", "t", "h", "e", " ", "s", "t", "a", "c", "k">>,
       (* 54: +, -, *, /, ^ -- Applies the respective binary operation *)
       <<"+", ",", " ", "-", ",", " ", "*", ",", " ", "/", ",", " ", "^", " ", "-", "-", " ", "A", "p", "p", "l", "i", "e", "s", " ", "t", "h", "e", " ", "r", "e", "s", "p", "e", "c", "t", "i", "v", "e", " ", "b", "i", "n", "a", "r", "y", " ", "o", "p", "e", "r", "a", "t", "i", "o", "n">>,
       (* 55: sqrt -- Takes the square root of the last number *)
       <<"s", "q", "r", "t", " ", "-", "-", " ", "T", "a", "k", "e", "s", " ", "t", "h", "e", " ", "s", "q", "u", "a", "r", "e", " ", "r", "o", "o", "t", " ", "o", "f", " ", "t", "h", "e", " ", "l", "a", "s", "t", " ", "n", "u", "m", "b", "e", "r">>,
       (* 56: neg -- Negates the last number *)
       <<"n", "e", "g", " ", "-", "-", " ", "N", "e", "g", "a", "t", "e", "s", " ", "t", "h", "e", " ", "l", "a", "s", "t", " ", "n", "u", "m", "b", "e", "r">>,
       (* 57: abs -- Makes the last number positive *)
       <<"a", "b", "s", " ", "-", "-", " ", "M", "a", "k", "e", "s", " ", "t", "h", "e", " ", "l", "a", "s", "t", " ", "n", "u", "m", "b", "e", "r", " ", "p", "o", "s", "i", "t", "i", "v", "e">>,
       (* 58: ln -- Applies the natural log to the last number *)
       <<"l", "n", " ", "-", "-", " ", "A", "p", "p", "l", "i", "e", "s", " ", "t", "h", "e", " ", "n", "a", "t", "u", "r", "a", "l", " ", "l", "o", "g", " ", "t", "o", " ", "t", "h", "e", " ", "l", "a", "s", "t", " ", "n", "u", "m", "b", "e", "r">>,
       (* 59: lg, log2 -- Applies the base-2 log to the last number *)
       <<"l", "g", ",", " ", "l", "o", "g", "2", " ", "-", "-", " ", "A", "p", "p", "l", "i", "e", "s", " ", "t", "h", "e", " ", "b", "a", "s", "e", "-", "2", " ", "l", "o", "g", " ", "t", "o", " ", "t", "h", "e", " ", "l", "a", "s", "t", " ", "n", "u", "m", "b", "e", "r">>,
       (* 60: log, log10 -- Applies the base-10 log to the last number *)
       <<"l", "o", "g", ",", " ", "l", "o", "g", "1", "0", " ", "-", "-", " ", "A", "p", "p", "l", "i", "e", "s", " ", "t", "h", "e", " ", "b", "a", "s", "e", "-", "1", "0", " ", "l", "o", "g", " ", "t", "o", " ", "t", "h", "e", " ", "l", "a", "s", "t", " ", "n", "u", "m", "b", "e", "r">>,
       (* 61: sin -- Applies the sine of the last number (in radians) *)
       <<"s", "i", "n", " ", "-", "-", " ", "A", "p", "p", "l", "i", "e", "s", " ", "t", "h", "e", " ", "s", "i", "n", "e", " ", "o", "f", " ", "t", "h", "e", " ", "l", "a", "s", "t", " ", "n", "u", "m", "b", "e", "r", " ", "(", "i", "n", " ", "r", "a", "d", "i", "a", "n", "s", ")">>,
       (* 62: cos -- Applies the cosine of the last number (in radians) *)
       <<"c", "o", "s", " ", "-", "-", " ", "A", "p", "p", "l", "i", "e", "s", " ", "t", "h", "e", " ", "c", "o", "s", "i", "n", "e", " ", "o", "f", " ", "t", "h", "e", " ", "l", "a", "s", "t", " ", "n", "u", "m", "b", "e", "r", " ", "(", "i", "n", " ", "r", "a", "d", "i", "a", "n", "s", ")">>,
       (* 63: tan -- Applies the tangent of the last number (in radians) *)
       <<"t", "a", "n", " ", "-", "-", " ", "A", "p", "p", "l", "i", "e", "s", " ", "t", "h", "e", " ", "t", "a", "n", "g", "e", "n", "t", " ", "o", "f", " ", "t", "h", "e", " ", "l", "a", "s", "t", " ", "n", "u", "m", "b", "e", "r", " ", "(", "i", "n", " ", "r", "a", "d", "i", "a", "n", "s", ")">>,
       (* 64: to deg -- Converts a number (in radians) to degrees *)
       <<"t", "o", " ", "d", "e", "g", " ", "-", "-", " ", "C", "o", "n", "v", "e", "r", "t", "s", " ", "a", " ", "n", "u", "m", "b", "e", "r", " ", "(", "i", "n", " ", "r", "a", "d", "i", "a", "n", "s", ")", " ", "t", "o", " ", "d", "e", "g", "r", "e", "e", "s">>,
       (* 65: to rad -- Converts a number (in degrees) to radians *)
       <<"t", "o", " ", "r", "a", "d", " ", "-", "-", " ", "C", "o", "n", "v", "e", "r", "t", "s", " ", "a", " ", "n", "u", "m", "b", "e", "r", " ", "(", "i", "n", " ", "d", "e", "g", "r", "e", "e", "s", ")", " ", "t", "o", " ", "r", "a", "d", "i", "a", "n", "s">>,
       (* 66: sum -- Add the entire stack together *)
       <<"s", "u", "m", " ", "-", "-", " ", "A", "d", "d", " ", "t", "h", "e", " ", "e", "n", "t", "i", "r", "e", " ", "s", "t", "a", "c", "k", " ", "t", "o", "g", "e", "t", "h", "e", "r">>,
       (* 67: prod -- Multiplies the entire stack together *)
       <<"p", "r", "o", "d", " ", "-", "-", " ", "M", "u", "l", "t", "i", "p", "l", "i", "e", "s", " ", "t", "h", "e", " ", "e", "n", "t", "i", "r", "e", " ", "s", "t", "a", "c", "k", " ", "t", "o", "g", "e", "t", "h", "e", "r">>,
       (* 68: pop -- Removes the topmost number *)
       <<"p", "o", "p", " ", "-", "-", " ", "R", "e", "m", "o", "v", "e", "s", " ", "t", "h", "e", " ", "t", "o", "p", "m", "o", "s", "t", " ", "n", "u", "m", "b", "e", "r">>,
       (* 69: clear -- Clears the stack *)
       <<"c", "l", "e", "a", "r", " ", "-", "-", " ", "C", "l", "e", "a", "r", "s", " ", "t", "h", "e", " ", "s", "t", "a", "c", "k">>,
       (* 70: swap -- Swaps the two topmost numbers *)
       <<"s", "w", "a", "p", " ", "-", "-", " ", "S", "w", "a", "p", "s", " ", "t", "h", "e", " ", "t", "w", "o", " ", "t", "o", "p", "m", "o", "s", "t", " ", "n", "u", "m", "b", "e", "r", "s">>,
       (* 71: rotate -- Moves the first number to the end of the stack *)
       <<"r", "o", "t", "a", "t", "e", " ", "-", "-", " ", "M", "o", "v", "e", "s", " ", "t", "h", "e", " ", "f", "i", "r", "s", "t", " ", "n", "u", "m", "b", "e", "r", " ", "t", "o", " ", "t", "h", "e", " ", "e", "n", "d", " ", "o", "f", " ", "t", "h", "e", " ", "s", "t", "a", "c", "k">> >>

\* print_help, main.rs:47-73
print_help == Parsed(NoOp, [i \in 1..Len(HelpText) |-> println(HelpText[i])])

\* Every pattern of the match of parse_string that is a string literal, main.rs:81-115
Aliases ==
    { <<"+">>, <<"a", "d", "d">>,
      <<"-">>, <<"s", "u", "b">>, <<"s", "u", "b", "t", "r", "a", "c", "t">>,
      <<"*">>, <<"m", "u", "l">>, <<"m", "u", "l", "t", "i", "p", "l", "y">>,
      <<"/">>, <<"d", "i", "v">>, <<"d", "i", "v", "i", "d", "e">>,
      <<"^">>, <<"p", "o", "w">>, <<"p", "o", "w", "e", "r">>,
      <<"a", "b", "s">>, <<"a", "b", "s", "o", "l", "u", "t", "e">>,
      <<"s", "q", "r", "t">>, <<"r", "o", "o", "t">>,
      <<"n", "e", "g">>, <<"n", "e", "g", "a", "t", "e">>, <<"~">>,
      <<"l", "n">>, <<"l", "o", "g", "e">>,
      <<"l", "o", "g">>, <<"l", "o", "g", "1", "0">>,
      <<"l", "g">>, <<"l", "o", "g", "2">>,
      <<"s", "i", "n">>,
      <<"a", "s", "i", "n">>, <<"s", "i", "n", "^", "-", "1">>,
      <<"c", "o", "s">>,
      <<"a", "c", "o", "s">>, <<"c", "o", "s", "^", "-", "1">>,
      <<"t", "a", "n">>,
      <<"a", "t", "a", "n">>, <<"t", "a", "n", "^", "-", "1">>,
      <<"d", "e", "g">>, <<"t", "o", " ", "d", "e", "g">>,
      <<"r", "a", "d">>, <<"t", "o", " ", "r", "a", "d">>,
      <<"p", "i">>, <<"π">>,
      <<"e">>,
      <<"p", "h", "i">>, <<"φ">>, <<"ϕ">>,
      <<"s", "u", "m">>,
      <<"p", "r", "o", "d">>,
      <<"p", "o", "p">>,
      <<"c", "l", "e", "a", "r">>, <<"c", "l", "s">>,
      <<"s", "w", "a", "p">>,
      <<"r", "o", "t", "a", "t", "e">>, <<"r", "o", "t">>,
      <<"c", "o", "p", "y">>, <<"c", "l", "o", "n", "e">>, <<"d", "u", "p", "l", "i", "c", "a", "t", "e">>,
      <<"h", "e", "l", "p">>, <<"?">>,
      <<"q", "u", "i", "t">>, <<"q">>, <<"e", "n", "d">> }

\* The arm of the match of parse_string that the trimmed text t takes: its
\* operation and what it prints.
parse_match(t) ==
    CASE t = <<"+">> \/ t = <<"a", "d", "d">> ->
            Parsed(Op("Add"), <<>>)
      [] t = <<"-">> \/ t = <<"s", "u", "b">> \/ t = <<"s", "u", "b", "t", "r", "a", "c", "t">> ->
            Parsed(Op("Sub"), <<>>)
      [] t = <<"*">> \/ t = <<"m", "u", "l">> \/ t = <<"m", "u", "l", "t", "i", "p", "l", "y">> ->
            Parsed(Op("Mul"), <<>>)
      [] t = <<"/">> \/ t = <<"d", "i", "v">> \/ t = <<"d", "i", "v", "i", "d", "e">> ->
            Parsed(Op("Div"), <<>>)
      [] t = <<"^">> \/ t = <<"p", "o", "w">> \/ t = <<"p", "o", "w", "e", "r">> ->
            Parsed(Op("Pow"), <<>>)
      [] t = <<"a", "b", "s">> \/ t = <<"a", "b", "s", "o", "l", "u", "t", "e">> ->
            Parsed(Op("Abs"), <<>>)
      [] t = <<"s", "q", "r", "t">> \/ t = <<"r", "o", "o", "t">> ->
            Parsed(Op("Sqrt"), <<>>)
      [] t = <<"n", "e", "g">> \/ t = <<"n", "e", "g", "a", "t", "e">> \/ t = <<"~">> ->
            Parsed(Op("Neg"), <<>>)
      [] t = <<"l", "n">> \/ t = <<"l", "o", "g", "e">> ->
            Parsed(Op("Ln"), <<>>)
      [] t = <<"l", "o", "g">> \/ t = <<"l", "o", "g", "1", "0">> ->
            Parsed(Op("Log"), <<>>)
      [] t = <<"l", "g">> \/ t = <<"l", "o", "g", "2">> ->
            Parsed(Op("Lg"), <<>>)
      [] t = <<"s", "i", "n">> ->
            Parsed(Op("Sin"), <<>>)
      [] t = <<"a", "s", "i", "n">> \/ t = <<"s", "i", "n", "^", "-", "1">> ->
            Parsed(Op("Asin"), <<>>)
      [] t = <<"c", "o", "s">> ->
            Parsed(Op("Cos"), <<>>)
      [] t = <<"a", "c", "o", "s">> \/ t = <<"c", "o", "s", "^", "-", "1">> ->
            Parsed(Op("Acos"), <<>>)
      [] t = <<"t", "a", "n">> ->
            Parsed(Op("Tan"), <<>>)
      [] t = <<"a", "t", "a", "n">> \/ t = <<"t", "a", "n", "^", "-", "1">> ->
            Parsed(Op("Atan"), <<>>)
      [] t = <<"d", "e", "g">> \/ t = <<"t", "o", " ", "d", "e", "g">> ->
            Parsed(Op("ToDeg"), <<>>)
      [] t = <<"r", "a", "d">> \/ t = <<"t", "o", " ", "r", "a", "d">> ->
            Parsed(Op("ToRad"), <<>>)
      [] t = <<"p", "i">> \/ t = <<"π">> ->
            Parsed(Num(PI), <<>>)
      [] t = <<"e">> ->
            Parsed(Num(E), <<>>)
      [] t = <<"p", "h", "i">> \/ t = <<"φ">> \/ t = <<"ϕ">> ->
            Parsed(Num(PHI), <<>>)
      [] t = <<"s", "u", "m">> ->
            Parsed(Op("Sum"), <<>>)
      [] t = <<"p", "r", "o", "d">> ->
            Parsed(Op("Prod"), <<>>)
      [] t = <<"p", "o", "p">> ->
            Parsed(Op("Pop"), <<>>)
      [] t = <<"c", "l", "e", "a", "r">> \/ t = <<"c", "l", "s">> ->
            Parsed(Op("Clear"), <<>>)
      [] t = <<"s", "w", "a", "p">> ->
            Parsed(Op("Swap"), <<>>)
      [] t = <<"r", "o", "t", "a", "t", "e">> \/ t = <<"r", "o", "t">> ->
            Parsed(Op("Rotate"), <<>>)
      [] t = <<"c", "o", "p", "y">> \/ t = <<"c", "l", "o", "n", "e">> \/ t = <<"d", "u", "p", "l", "i", "c", "a", "t", "e">> ->
            Parsed(Op("Duplicate"), <<>>)
      [] t = <<"h", "e", "l", "p">> \/ t = <<"?">> ->
            print_help
      [] t = <<"q", "u", "i", "t">> \/ t = <<"q">> \/ t = <<"e", "n", "d">> ->
            Parsed(NoOp, <<println(<<"T", "o", " ", "q", "u", "i", "t", ",", " ", "p", "r", "e", "s", "s", " ", "c", "t", "r", "l", "+", "c">>)>>)
      [] OTHER ->
            LET num == parse_f64(t)
            IN IF num.ok THEN Parsed(Num(num.val), <<>>)
               ELSE Parsed(NoOp, <<println(<<"E", "r", "r", "o", "r", "!", " ", "C", "o", "u", "l", "d", "n", "'", "t", " ", "p", "a", "r", "s", "e", " ">> \o t)>>)

\* parse_string as it would be if the quit arm gave the operation that
\* empties the stack
parse_string_quit_clears(inp) ==
    IF trim(inp) \in {<<"q", "u", "i", "t">>, <<"q">>, <<"e", "n", "d">>}
    THEN Parsed(Op("Clear"), <<>>)
    ELSE parse_match(trim(inp))

\* parse_string, main.rs:76-129
parse_string(inp) == parse_match(trim(inp))

\* print!("> ")
Prompt == <<">", " ">>

\* get_input, main.rs:132-142, for the line read_line left in buff: the
\* operation returned and everything printed.
\* get_input as it would be without `buff = buff.to_lowercase()`
get_input_as_typed(line) ==
    LET parsed == parse_string(line)
    IN Parsed(parsed.op, <<Prompt>> \o parsed.printed)

get_input(line) ==
    LET parsed == parse_string(to_lowercase(line))
    IN Parsed(parsed.op, <<Prompt>> \o parsed.printed)

-----------------------------------------------------------------------------
(* The display of main, main.rs:254-256: "{:.2?}" of the deque. *)

RECURSIVE DecText(_)
DecText(n) ==
    IF n < 10 THEN <<DigitChars[n + 1]>>
    ELSE DecText(n \div 10) \o <<DigitChars[(n % 10) + 1]>>

\* One f64 under {:.2?}
Fmt2(v) ==
    LET minus == IF v.s = -1 THEN <<"-">> ELSE <<>>
    IN CASE v.k = "nan" -> <<"N", "a", "N">>
         [] v.k = "inf" -> minus \o <<"i", "n", "f">>
         [] v.k = "fin" -> minus \o DecText(v.m) \o <<".", "0", "0">>
         [] v.k = "sym" /\ v.m = 1 -> minus \o <<"3", ".", "1", "4">>
         [] v.k = "sym" /\ v.m = 2 -> minus \o <<"2", ".", "7", "2">>
         [] v.k = "sym" /\ v.m = 3 -> minus \o <<"1", ".", "6", "2">>

RECURSIVE FmtList(_)
FmtList(s) ==
    IF s = <<>> THEN <<>>
    ELSE IF Len(s) = 1 THEN Fmt2(s[1])
    ELSE Fmt2(s[1]) \o <<",", " ">> \o FmtList(Tail(s))

\* the display as it would be listing the deque from the back
StackLine_top_first(s) ==
    println(<<"S", "t", "a", "c", "k", ":", " ">> \o <<"[">>
            \o FmtList([i \in 1..Len(s) |-> s[Len(s) + 1 - i]]) \o <<"]">>)

\* println!("Stack: {:.2?}", stack)
StackLine(s) == println(<<"S", "t", "a", "c", "k", ":", " ">> \o <<"[">> \o FmtList(s) \o <<"]">>)

-----------------------------------------------------------------------------
(* The inputs of the model. *)

\* The lines of the session (Spec), each as read_line returns it.
SessionWords ==
    { <<"+">>, <<"-">>, <<"*">>, <<"/">>,
      <<"^">>, <<"a", "b", "s">>, <<"s", "q", "r", "t">>, <<"n", "e", "g">>,
      <<"l", "n">>, <<"l", "o", "g">>, <<"l", "g">>, <<"s", "i", "n">>,
      <<"a", "s", "i", "n">>, <<"c", "o", "s">>, <<"a", "c", "o", "s">>, <<"t", "a", "n">>,
      <<"a", "t", "a", "n">>, <<"d", "e", "g">>, <<"r", "a", "d">>, <<"p", "i">>,
      <<"s", "u", "m">>, <<"p", "r", "o", "d">>, <<"p", "o", "p">>, <<"c", "l", "e", "a", "r">>,
      <<"s", "w", "a", "p">>, <<"r", "o", "t", "a", "t", "e">>, <<"c", "o", "p", "y">>, <<"h", "e", "l", "p">>,
      <<"q", "u", "i", "t">>, <<"0">>, <<"1">>, <<"2">>,
      <<"-", "1">>, <<"a", "b", "c">>, <<>>, <<"A", "D", "D">>,
      <<" ", "S", "w", "a", "p", " ">>, <<"q">>, <<"e", "n", "d">>, <<"?">> }
Lines == {w \o <<"\n">> : w \in SessionWords}

\* Number literals and texts that are neither an alias nor a number.
NumberWords ==
    { <<"0">>, <<"1">>, <<"2">>, <<"-", "1">>,
      <<"+", "2">>, <<"-", "0">>, <<"1", ".", "0">>, <<"2", ".">>,
      <<"1", "e", "0">>, <<"0", "2">>, <<"i", "n", "f">>, <<"-", "i", "n", "f">>,
      <<"i", "n", "f", "i", "n", "i", "t", "y">>, <<"n", "a", "n">> }
JunkWords ==
    { <<"a", "b", "c">>, <<>>, <<"1", " ", "2">>, <<"-", "-">>,
      <<"1", "e">>, <<".">>, <<"a", "d", " ", "d">>, <<"p", "i", "e">>,
      <<"x", "+">>, <<"e", "1">>, <<"+", "-", "1">>, <<"0", "x", "1">> }

\* A word in lower case, in upper case, capitalised, and with only its last
\* letter a capital.
Cases(w) ==
    {w, to_uppercase(w),
     [i \in 1..Len(w) |-> IF i = 1 THEN UpperOf(w[i]) ELSE w[i]],
     [i \in 1..Len(w) |-> IF i = Len(w) THEN UpperOf(w[i]) ELSE w[i]]}

\* The whitespace around a word: a plain line, blanks around it, a tab and a
\* carriage return, and a last line that no line break ends.
Pads == {<< <<>>, <<"\n">> >>, << <<" ">>, <<" ", "\n">> >>,
         << <<"\t">>, <<"\r", "\n">> >>, << <<>>, <<>> >>}

ParseInputs ==
    {p[1] \o c \o p[2] : c \in UNION {Cases(w) : w \in Aliases \cup NumberWords \cup JunkWords},
                         p \in Pads}

\* The stacks the one-line sessions of ParseSpec start from.
ParseStacks == {<<>>, <<Fin(1)>>, <<Fin(2), Fin(1)>>}

\* The numbers of the stacks and of the literals of EvalSpec.
Operands == {Fin(-1), Fin(0), Fin(1), Fin(2), Fin(3), Fin(5), NaN, Inf(1)}
EvalStacks == UNION {[1..n -> Operands] : n \in 0..MaxDepth}
EvalOps == {Op(t) : t \in PlainTags} \cup {Num(v) : v \in Operands}

\* No number of the stack is outside the model.
Known(s) == \A i \in 1..Len(s) : s[i].k # "unk"
\* The stack is within the bounds of the session.
InSession(s) ==
    /\ Len(s) <= MaxLen
    /\ Known(s)
    /\ \A i \in 1..Len(s) : s[i].k = "fin" => s[i].m <= MaxNum

-----------------------------------------------------------------------------
(* main, main.rs:246-258. *)

Welcome ==
    << println(<<"W", "e", "l", "c", "o", "m", "e", " ", "t", "o", " ", "t", "h", "e", " ", "s", "t", "a", "c", "k", " ", "c", "a", "l", "c", "u", "l", "a", "t", "o", "r", "!">>),
       println(<<"T", "y", "p", "e", " ", "\"", "h", "e", "l", "p", "\"", " ", "a", "n", "d", " ", "h", "i", "t", " ", "r", "e", "t", "u", "r", "n", " ", "t", "o", " ", "v", "i", "e", "w", " ", "a", "v", "a", "i", "l", "a", "b", "l", "e", " ", "c", "o", "m", "m", "a", "n", "d", "s", ".">>) >>

Init ==
    /\ stack = <<>>
    /\ pc = "read"
    /\ input = NoOp
    /\ buff = <<>>
    /\ out = Welcome
    /\ prev = <<>>
    /\ stdin = "open"

\* main.rs:251: get_input reads a line of L; more is the state of the stream
\* after it.
GetInput(L, more) ==
    /\ pc = "read"
    /\ stdin = "open"
    /\ \E line \in L :
        LET got == get_input(line)
        IN /\ InSession(eval(stack, got.op).stack)
           /\ buff' = line
           /\ input' = got.op
           /\ out' = got.printed
    /\ prev' = stack
    /\ stdin' = more
    /\ pc' = "eval"
    /\ UNCHANGED stack

\* main.rs:138: read_line at the end of the input returns Ok(0) and leaves
\* buff empty.
GetInputEof ==
    /\ pc = "read"
    /\ LET got == get_input(<<>>)
       IN /\ buff' = <<>>
          /\ input' = got.op
          /\ out' = got.printed
    /\ prev' = stack
    /\ stdin' = "eof"
    /\ pc' = "eval"
    /\ UNCHANGED stack

\* main.rs:137-138, 251: flush or read_line fails and `?` returns the error
\* from main.
GetInputErr ==
    /\ pc = "read"
    /\ out' = <<Prompt>>
    /\ pc' = "returned"
    /\ UNCHANGED <<stack, input, buff, prev, stdin>>

\* main.rs:252
Eval ==
    /\ pc = "eval"
    /\ LET r == eval(stack, input)
       IN /\ stack' = r.stack
          /\ pc' = IF r.panic THEN "panicked" ELSE "display"
    /\ UNCHANGED <<input, buff, out, prev, stdin>>

\* main.rs:254-257: the display, and the end of the iteration, where its
\* locals are dropped.
Display ==
    /\ pc = "display"
    /\ out' = IF Len(stack) >= 1 THEN Append(out, StackLine(stack)) ELSE out
    /\ pc' = "read"
    /\ input' = NoOp
    /\ buff' = <<>>
    /\ prev' = stack
    /\ UNCHANGED <<stack, stdin>>

Next ==
    \/ GetInput(Lines, "open")
    \/ GetInputEof
    \/ GetInputErr
    \/ Eval
    \/ Display

Spec == Init /\ [][Next]_vars

\* The session of a process that is never stopped from outside: main is one
\* sequential loop, so whenever it has a next step it takes one.
FairSpec == Spec /\ WF_vars(Next)

-----------------------------------------------------------------------------
(* ParseSpec: the sessions whose input is one line of ParseInputs, from the *)
(* stacks of ParseStacks.                                                   *)

ParseInit ==
    /\ stack \in ParseStacks
    /\ pc = "read"
    /\ input = NoOp
    /\ buff = <<>>
    /\ out = <<>>
    /\ prev = stack
    /\ stdin = "open"

ParseNext ==
    \/ GetInput(ParseInputs, "eof")
    \/ Eval
    \/ Display

ParseSpec == ParseInit /\ [][ParseNext]_vars

-----------------------------------------------------------------------------
(* EvalSpec: eval applied once to each stack of EvalStacks and each         *)
(* operation of EvalOps.                                                    *)

EvalInit ==
    /\ stack \in EvalStacks
    /\ input \in EvalOps
    /\ Known(eval(stack, input).stack)
    /\ pc = "eval"
    /\ buff = <<>>
    /\ out = <<>>
    /\ prev = stack
    /\ stdin = "open"

EvalNext == Eval

EvalSpec == EvalInit /\ [][EvalNext]_vars

-----------------------------------------------------------------------------
(* The claims. *)

\* eval has returned, or panicked, in the current cycle
Evaluated == pc \in {"display", "panicked"}

\* the function eval passes to eval_binop for a binary operation, as the
\* documentation of StackOp names it
BinFun(tag) ==
    CASE tag = "Add" -> "add"
      [] tag = "Sub" -> "sub"
      [] tag = "Mul" -> "mul"
      [] tag = "Div" -> "div"
      [] tag = "Pow" -> "powf"

\* C1: on a stack of fewer than two elements every binary operation returns
\* normally and leaves the stack as it was, the same length and the same
\* values at the same positions.
C1_BinopUnderflowUnchanged ==
    (Evaluated /\ input.tag \in BinTags /\ Len(prev) < 2)
        => (pc = "display" /\ Len(stack) = Len(prev) /\ stack = prev)

C1_Witness ==
    /\ pc = "display"
    /\ input = Op("Div")
    /\ prev = <<Fin(5)>>
    /\ stack = <<Fin(5)>>

\* C2: on a stack of at least two elements a binary operation removes the two
\* topmost elements and pushes the one result (second-from-top OP top); the
\* length decreases by exactly 1 and the elements below stay.  From the empty
\* stack, push 2, push 1, Sub leaves [1].
C2_BinopOrder ==
    /\ (Evaluated /\ input.tag \in BinTags /\ Len(prev) >= 2) =>
          LET n == Len(prev)
          IN /\ pc = "display"
             /\ Len(stack) = n - 1
             /\ SubSeq(stack, 1, n - 2) = SubSeq(prev, 1, n - 2)
             /\ stack[n - 1] = Call2(BinFun(input.tag), prev[n - 1], prev[n])
    /\ (/\ Evaluated
        /\ input = Op("Sub")
        /\ prev = eval(eval(<<>>, Num(Fin(2))).stack, Num(Fin(1))).stack)
          => (stack = <<Fin(1)>> /\ stack # <<Fin(-1)>>)

C2_Witness ==
    /\ pc = "display"
    /\ input = Op("Sub")
    /\ prev = <<Fin(2), Fin(1)>>
    /\ stack = <<Fin(1)>>

\* C3: on the empty stack every unary operation and each of Pop, Swap, Rotate
\* and Duplicate leaves the stack empty; on a one-element stack Swap leaves
\* the stack as it was.
C3_UnderflowUnchanged ==
    /\ (/\ Evaluated
        /\ input.tag \in UnTags \cup {"Pop", "Swap", "Rotate", "Duplicate"}
        /\ prev = <<>>)
          => (pc = "display" /\ stack = <<>>)
    /\ (Evaluated /\ input.tag = "Swap" /\ Len(prev) = 1)
          => (pc = "display" /\ stack = prev)

C3_Witness ==
    /\ pc = "display"
    /\ input = Op("Duplicate")
    /\ prev = <<>>
    /\ stack = <<>>

\* C4: in every session from the empty stack eval never panics: no cycle ends
\* in a failed unwrap, and from every stack a session reaches, no operation's
\* evaluation would.
C4_NeverPanics ==
    /\ pc # "panicked"
    /\ \A t \in PlainTags : ~eval(stack, Op(t)).panic
    /\ pc = "eval" => ~eval(stack, input).panic

C4_Witness ==
    /\ pc = "display"
    /\ input = Op("Swap")
    /\ Len(prev) = 1
    /\ stack = prev

\* The left fold of s from its first (bottom) element to its last (top) one.
RECURSIVE LeftFold(_, _, _)
LeftFold(s, start, fun) ==
    IF s = <<>> THEN start
    ELSE Call2(fun, LeftFold(SubSeq(s, 1, Len(s) - 1), start, fun), s[Len(s)])

\* C5: Sum and Prod apply to a stack of any size and leave exactly one
\* element, the left fold of the old contents from bottom to top starting at
\* 0 for Sum and at 1 for Prod: Sum on [] leaves [0], Prod on [] leaves [1],
\* Sum on [2,3,5] leaves [10] and Prod on [2,3,5] leaves [30].
C5_SumProdFold ==
    /\ (Evaluated /\ input.tag = "Sum")
          => (pc = "display" /\ stack = <<LeftFold(prev, Fin(0), "add")>>)
    /\ (Evaluated /\ input.tag = "Prod")
          => (pc = "display" /\ stack = <<LeftFold(prev, Fin(1), "mul")>>)
    /\ (Evaluated /\ input.tag = "Sum" /\ prev = <<>>) => stack = <<Fin(0)>>
    /\ (Evaluated /\ input.tag = "Prod" /\ prev = <<>>) => stack = <<Fin(1)>>
    /\ (Evaluated /\ input.tag = "Sum" /\ prev = <<Fin(2), Fin(3), Fin(5)>>)
          => stack = <<Fin(10)>>
    /\ (Evaluated /\ input.tag = "Prod" /\ prev = <<Fin(2), Fin(3), Fin(5)>>)
          => stack = <<Fin(30)>>

C5_Witness ==
    /\ pc = "display"
    /\ input = Op("Prod")
    /\ prev = <<Fin(2), Fin(3), Fin(5)>>
    /\ stack = <<Fin(30)>>

C7_DuplicateTop ==
    /\ (Evaluated /\ input.tag = "Duplicate" /\ Len(prev) >= 1) =>
          LET n == Len(prev)
          IN /\ pc = "display"
             /\ Len(stack) = n + 1
             /\ stack[n + 1] = stack[n]
             /\ \A i \in 1..n : stack[i] = prev[i]
    /\ (Evaluated /\ input.tag = "Duplicate" /\ prev = <<Fin(5)>>)
          => stack = <<Fin(5), Fin(5)>>
    /\ (Evaluated /\ input.tag = "Duplicate" /\ prev = <<>>) => stack = <<>>

C7_Witness ==
    /\ pc = "display"
    /\ input = Op("Duplicate")
    /\ prev = <<Fin(2), Fin(5)>>
    /\ stack = <<Fin(2), Fin(5), Fin(5)>>

\* get_input has returned in the current cycle: buff holds the line it read
LineRead == pc \in {"eval", "display", "panicked"}

\* The lines that hold the word w in one of its letter cases, with whitespace
\* around it.
VariantsOf(w) == {p[1] \o c \o p[2] : c \in Cases(w), p \in Pads}

\* C8: aliases are matched in any letter case and with any whitespace around
\* them: for every alias, a line holding it in lower case, in upper case or
\* capitalised, with or without leading and trailing whitespace, gives the
\* operation parse_string gives for the lower-case alias alone; the line "PI"
\* gives the literal of pi.
C8_CaseAndWhitespace ==
    LineRead =>
        /\ \A w \in Aliases :
              buff \in VariantsOf(w) => input = parse_string(w).op
        /\ buff \in {<<"P", "I">>, <<"P", "I", "\n">>, <<"P", "i", "\n">>,
                     <<" ", "P", "I", " ", "\n">>}
              => input = Num(PI)
        /\ buff = <<" ", "A", "d", "d", " ", "\n">> => input = Op("Add")

C8_Witness ==
    /\ pc = "display"
    /\ buff = <<"P", "I", "\n">>
    /\ input = Num(PI)
    /\ stack = <<Fin(1), PI>>

\* "Error! Couldn't parse "
ErrorText == <<"E", "r", "r", "o", "r", "!", " ", "C", "o", "u", "l", "d", "n", "'", "t", " ", "p", "a", "r", "s", "e", " ">>

\* C9: parsing is total and its failure local: every line gives one operation
\* of StackOp; a line whose text is neither an alias nor a number gives NoOp
\* and prints the diagnostic with the text (trimmed, in lower case), and the
\* cycle of that line leaves the stack as it was.
C9_ParseTotalFailureLocal ==
    LineRead =>
        /\ input.tag \in PlainTags \cup {"Num"}
        /\ input.tag = "Num" => input.n.k \in {"fin", "inf", "nan", "sym"}
        /\ \A w \in JunkWords :
              buff \in VariantsOf(w) =>
                  /\ input = NoOp
                  /\ Len(out) >= 2
                  /\ out[1] = Prompt
                  /\ out[2] = ErrorText \o w \o <<"\n">>
                  /\ pc # "panicked"
                  /\ pc = "display" => stack = prev

C9_Witness ==
    /\ pc = "display"
    /\ buff = <<" ", "A", "B", "C", " ", "\n">>
    /\ input = NoOp
    /\ out = <<Prompt, ErrorText \o <<"a", "b", "c", "\n">> >>
    /\ stack = <<Fin(2), Fin(1)>>
    /\ prev = stack

\* The text a occurs in the text t.
Occurs(a, t) == \E i \in 1..(Len(t) - Len(a) + 1) : SubSeq(t, i, i + Len(a) - 1) = a

\* The help command ran in the current cycle.
HelpPrinted == LineRead /\ trim(to_lowercase(buff)) \in {<<"h", "e", "l", "p">>, <<"?">>}

\* C10: the help listing is complete: every alias parse_string accepts occurs
\* in the text the help command prints.
C10_HelpComplete ==
    HelpPrinted => \A a \in Aliases : \E i \in 1..Len(out) : Occurs(a, out[i])

\* C11: a failure of the console ends the session: once the input stream has
\* reached its end (read_line returned Ok(0)), main does not cycle for ever
\* but returns.
C11_EndOfInputEndsSession == (stdin = "eof") ~> (pc = "returned")

\* The aliases of the arms of parse_string that print and return NoOp.
QuitHelpWords == {<<"q", "u", "i", "t">>, <<"q">>, <<"e", "n", "d">>,
                  <<"h", "e", "l", "p">>, <<"?">>}

\* "To quit, press ctrl+c"
QuitText == <<"T", "o", " ", "q", "u", "i", "t", ",", " ", "p", "r", "e", "s", "s", " ", "c", "t", "r", "l", "+", "c">>

\* C12: no input line ends the session.  A line read is always evaluated and
\* displayed and main is back at its read; main returns only from a read that
\* failed, with no line in hand.  The lines quit, q, end, help and ? give NoOp
\* and their cycle leaves the stack as it was.
C12_NoLineEndsSession ==
    [][/\ (pc' = "eval" /\ \E w \in QuitHelpWords : buff' \in VariantsOf(w))
            => input' = NoOp
       /\ pc = "eval" => pc' = "display"
       /\ (pc = "eval" /\ \E w \in QuitHelpWords : buff \in VariantsOf(w))
            => stack' = stack
       /\ pc = "display" => (pc' = "read" /\ stack' = stack /\ stdin' = stdin)
       /\ pc' = "returned" => (pc = "read" /\ buff' = <<>> /\ input' = NoOp)
      ]_vars

C12_Witness ==
    /\ pc = "read"
    /\ stdin = "open"
    /\ stack = <<Fin(2), Fin(1)>>
    /\ out = <<Prompt, println(QuitText), StackLine(stack)>>
    /\ ENABLED GetInput(Lines, "open")

\* C13: a literal is pushed on the top of a stack of any size, and a Pop
\* right after it leaves the stack as it was before the push, the same length
\* and the same numbers.
C13_PushPopRoundTrip ==
    (Evaluated /\ input.tag = "Num") =>
        /\ pc = "display"
        /\ Len(stack) = Len(prev) + 1
        /\ stack[Len(stack)] = input.n
        /\ \A i \in 1..Len(prev) : stack[i] = prev[i]
        /\ eval(stack, Op("Pop")) = Ok(prev)

C13_Witness ==
    /\ pc = "display"
    /\ input = Num(Fin(5))
    /\ prev = <<Fin(1), Fin(2), Fin(3)>>
    /\ stack = <<Fin(1), Fin(2), Fin(3), Fin(5)>>
    /\ eval(stack, Op("Pop")).stack = prev

\* C14: Clear leaves the empty stack from every stack, the empty one
\* included, and a second Clear changes nothing.
C14_ClearIdempotent ==
    (Evaluated /\ input.tag = "Clear") =>
        /\ pc = "display"
        /\ stack = <<>>
        /\ eval(stack, Op("Clear")) = Ok(stack)
        /\ eval(eval(prev, Op("Clear")).stack, Op("Clear")) = eval(prev, Op("Clear"))
        /\ eval(<<>>, Op("Clear")) = Ok(<<>>)

C14_Witness ==
    /\ pc = "display"
    /\ input = Op("Clear")
    /\ prev = <<Fin(1), Fin(2), Fin(3)>>
    /\ stack = <<>>

\* the function eval passes to eval_unop for a unary operation, as the
\* documentation of StackOp names it
UnFun(tag) ==
    CASE tag = "Sqrt" -> "sqrt"
      [] tag = "Neg" -> "neg"
      [] tag = "Abs" -> "abs"
      [] tag = "Ln" -> "ln"
      [] tag = "Log" -> "log10"
      [] tag = "Lg" -> "log2"
      [] tag = "Sin" -> "sin"
      [] tag = "Asin" -> "asin"
      [] tag = "Cos" -> "cos"
      [] tag = "Acos" -> "acos"
      [] tag = "Tan" -> "tan"
      [] tag = "Atan" -> "atan"
      [] tag = "ToDeg" -> "to_degrees"
      [] tag = "ToRad" -> "to_radians"

\* C16: on a non-empty stack a unary operation keeps the length and every
\* element below the top, and puts f(top) in the place of the top; for Neg
\* and Abs over the integers the new top is -n and |n|.
C16_UnaryReplacesTop ==
    (Evaluated /\ input.tag \in UnTags /\ Len(prev) >= 1) =>
        LET n == Len(prev)
        IN /\ pc = "display"
           /\ Len(stack) = n
           /\ \A i \in 1..(n - 1) : stack[i] = prev[i]
           /\ stack[n] = Call1(UnFun(input.tag), prev[n])
           /\ (input.tag = "Neg" /\ prev[n].k = "fin") =>
                  (stack[n].k = "fin" /\ IntOf(stack[n]) = 0 - IntOf(prev[n]))
           /\ (input.tag = "Abs" /\ prev[n].k = "fin") =>
                  /\ stack[n].k = "fin"
                  /\ IntOf(stack[n]) >= 0
                  /\ IntOf(stack[n]) \in {IntOf(prev[n]), 0 - IntOf(prev[n])}

C16_Witness ==
    /\ pc = "display"
    /\ input = Op("Neg")
    /\ prev = <<Fin(1), Fin(2), Fin(3)>>
    /\ stack = <<Fin(1), Fin(2), Fin(-3)>>

\* the operations that may change an element below the two topmost
DeepTags == {"Rotate", "Sum", "Prod", "Clear"}

\* C17: no operation but Rotate, Sum, Prod and Clear changes an element below
\* the two topmost positions of the stack it is applied to; Swap on a stack
\* of two or more elements keeps the length and exchanges the two topmost.
C17_FrameBelowTopTwo ==
    Evaluated =>
        LET n == Len(prev)
        IN /\ input.tag \notin DeepTags =>
                  \A i \in 1..(n - 2) : i <= Len(stack) /\ stack[i] = prev[i]
           /\ (input.tag = "Swap" /\ n >= 2) =>
                  /\ pc = "display"
                  /\ Len(stack) = n
                  /\ stack[n] = prev[n - 1]
                  /\ stack[n - 1] = prev[n]

C17_Witness ==
    /\ pc = "display"
    /\ input = Op("Swap")
    /\ prev = <<Fin(1), Fin(2), Fin(3)>>
    /\ stack = <<Fin(1), Fin(3), Fin(2)>>

\* Rotate evaluated k times in a row
RECURSIVE RotN(_, _)
RotN(s, k) == IF k = 0 THEN s ELSE RotN(eval(s, Op("Rotate")).stack, k - 1)

Distinct(s) == \A i, j \in 1..Len(s) : i # j => s[i] # s[j]

\* C18: Rotate evaluated n times in a row on a stack of n >= 1 elements gives
\* the stack back, and evaluated fewer times (at least once) on a stack of
\* pairwise distinct elements it gives another stack.
C18_RotateCyclic ==
    (Evaluated /\ input.tag = "Rotate" /\ Len(prev) >= 1) =>
        LET n == Len(prev)
        IN /\ pc = "display"
           /\ RotN(stack, n - 1) = prev
           /\ RotN(prev, n) = prev
           /\ Distinct(prev) =>
                  \A k \in 1..(n - 1) : RotN(stack, k - 1) # prev /\ RotN(prev, k) # prev

C18_Witness ==
    /\ pc = "display"
    /\ input = Op("Rotate")
    /\ prev = <<Fin(1), Fin(2), Fin(3)>>
    /\ stack = <<Fin(3), Fin(1), Fin(2)>>
    /\ RotN(stack, 1) = <<Fin(2), Fin(3), Fin(1)>>
    /\ RotN(stack, 2) = prev

\* C19: Swap evaluated twice in a row gives the stack back, whatever its
\* length, 0 and 1 included.
C19_SwapInvolution ==
    (Evaluated /\ input.tag = "Swap") =>
        /\ pc = "display"
        /\ eval(stack, Op("Swap")) = Ok(prev)

C19_Witness ==
    /\ pc = "display"
    /\ input = Op("Swap")
    /\ prev = <<Fin(5), Fin(2), Fin(3)>>
    /\ stack = <<Fin(5), Fin(3), Fin(2)>>
    /\ eval(stack, Op("Swap")).stack = prev

\* the length eval leaves, from the operation and the length it found
LenAfter(tag, n) ==
    CASE tag = "Num" -> n + 1
      [] tag = "Duplicate" -> IF n >= 1 THEN n + 1 ELSE n
      [] tag \in BinTags -> IF n >= 2 THEN n - 1 ELSE n
      [] tag = "Pop" -> IF n >= 1 THEN n - 1 ELSE n
      [] tag \in UnTags \cup {"Swap", "Rotate", "NoOp"} -> n
      [] tag \in FoldTags -> 1
      [] tag = "Clear" -> 0

\* C20: in every state of a session the length eval leaves is fixed by the
\* operation and the length it found: +1 for a literal and for Duplicate on
\* a non-empty stack, -1 for a binary operation on two or more elements and
\* for Pop on a non-empty stack, 1 after Sum and Prod, 0 after Clear, and the
\* same length otherwise; so the length grows only by a literal, a Duplicate,
\* or a Sum or Prod on the empty stack.
C20_LengthDelta ==
    Evaluated =>
        /\ pc = "display"
        /\ Len(stack) = LenAfter(input.tag, Len(prev))
        /\ Len(stack) > Len(prev) =>
               \/ input.tag \in {"Num", "Duplicate"}
               \/ (input.tag \in FoldTags /\ Len(prev) = 0)

C20_Witness ==
    /\ pc = "display"
    /\ input = Op("Add")
    /\ prev = <<Fin(1), Fin(1)>>
    /\ stack = <<Fin(2)>>
    /\ out = <<Prompt>>

\* the numbers of positions 1..i of s as the display shows them, the bottom
\* of the stack first
RECURSIVE BottomToTop(_, _)
BottomToTop(s, i) ==
    IF i = 0 THEN <<>>
    ELSE IF i = 1 THEN Fmt2(s[1])
    ELSE BottomToTop(s, i - 1) \o <<",", " ">> \o Fmt2(s[i])

\* C15: an iteration reads and parses one line, then evaluates it, then
\* displays, and only then is the next line read; the display, after a no-op
\* as after any operation, prints the stack if and only if it is not empty,
\* its numbers from the bottom to the top.
C15_CycleOrderAndDisplay ==
    [][/\ pc = "read" => (pc' \in {"eval", "returned"} /\ stack' = stack)
       /\ pc' = "eval" => (pc = "read" /\ input' = get_input(buff').op)
       /\ pc = "eval" =>
              (pc' = "display" /\ stack' = eval(stack, input).stack /\ out' = out)
       /\ pc = "display" =>
              /\ pc' = "read"
              /\ stack' = stack
              /\ stack = <<>> => out' = out
              /\ stack # <<>> =>
                     out' = Append(out, <<"S", "t", "a", "c", "k", ":", " ", "[">>
                                        \o BottomToTop(stack, Len(stack))
                                        \o <<"]", "\n">>)
       /\ pc' = "read" => pc = "display"
      ]_vars

C15_Witness ==
    /\ pc = "read"
    /\ stack = <<Fin(2), Fin(1)>>
    /\ out = <<Prompt, <<"S", "t", "a", "c", "k", ":", " ", "[", "2", ".", "0", "0", ",", " ", "1", ".", "0", "0", "]", "\n">>>>

====
